---- MODULE Spec2Model ----
(***************************************************************************)
(* Model of the classical decision core of backend/qsolver.py: the SRDF    *)
(* variant C evaluator (evaluate_solution), the bitstring decoder, the     *)
(* sample selector, the greedy repair loop, the reduction phase and the    *)
(* final arbitration of run_vqe_on_ibm.                                    *)
(*                                                                         *)
(* A vertex id is a positive integer.  graph_data['vertices'] is the       *)
(* sequence `vertices` of ids, graph_data['edges'] the sequence `edges` of *)
(* records [source, target, sign].  A Python dict is a function whose      *)
(* DOMAIN is its key set; the counts dict is a sequence of records         *)
(* [bitstring, count] in iteration order, a bitstring a sequence of 0/1    *)
(* whose last element is Python's bitstring[-1].                           *)
(***************************************************************************)
EXTENDS Integers, Sequences, FiniteSets

VARIABLES
    vertices,               \* graph_data['vertices'] (ids, in list order)
    edges,                  \* graph_data['edges']
    counts,                 \* result[0].data.meas.get_counts(), in iteration order
    pc,                     \* position in the code
    k,                      \* index of the next item of counts.items()
    current_assignment,     \* l.165 (also the argument of a direct evaluate call)
    is_valid,               \* l.177
    weight,                 \* l.177
    violations,             \* l.177
    best_qc_assignment,     \* l.158
    best_qc_score,          \* l.159
    best_hybrid_assignment, \* l.190, the "assignment" returned at l.286
    greedy_assignment,      \* l.194
    changed,                \* l.196
    iterations,             \* l.197
    pass_no,                \* the `_` of l.259
    vidx,                   \* position of `v` in the loop of l.260
    c_score,                \* l.273
    raised                  \* TRUE once the except clause of l.281 was entered

vars == <<vertices, edges, counts, pc, k, current_assignment, is_valid, weight,
          violations, best_qc_assignment, best_qc_score, best_hybrid_assignment,
          greedy_assignment, changed, iterations, pass_no, vidx, c_score, raised>>

(***************************************************************************)
(* Bounds of the checked instances.                                        *)
(***************************************************************************)
MaxV == 3          \* vertices of a solve request
MaxE == 3          \* freely chosen edges of a solve request
MaxSampledE == 1   \* edges of a solve request that comes with samples
MaxSamples == 1    \* distinct bitstrings in counts of a solve request
MaxSelV == 2       \* vertices, selection instances
MaxSelE == 1       \* edges, selection instances
MaxSelSamples == 2 \* distinct bitstrings in counts, selection instances
MaxParallel == 7   \* copies of one edge appended to the edge list
MaxEvalV == 3      \* vertices of a direct evaluate_solution call
MaxEvalE == 2      \* edges of a direct evaluate_solution call
MaxDecId == 3      \* largest vertex id of a direct decode
MaxBits == 5       \* longest bitstring of a direct decode

(***************************************************************************)
(* Program constants.                                                      *)
(***************************************************************************)
NoiseFloor == 5        \* `if count < 5: continue`
IterCap == 100         \* `while changed and iterations < 100`
ReducePasses == 3      \* `for _ in range(3)`
RomanPenalty == 10     \* `violations += 10`
DefensePenalty == 5    \* `violations += 5 + abs(1 - defense_score)`
ScoreFactor == 100     \* `(violations * 100) + weight`
NoCand == -1           \* `best_cand = -1`, `max_gain = -1`
Inf == -2              \* stands for float('inf'); only LessThanScore reads it

(***************************************************************************)
(* Python helpers.                                                         *)
(***************************************************************************)
Range(s) == {s[i] : i \in 1..Len(s)}

SeqsUpTo(S, n) == UNION {[1..m -> S] : m \in 0..n}

Injective(s) == \A i, j \in 1..Len(s) : s[i] = s[j] => i = j

Abs(x) == IF x < 0 THEN -x ELSE x

\* dict.get(key, 0)
Get(assignment, key) == IF key \in DOMAIN assignment THEN assignment[key] ELSE 0

\* sum(assignment.values())
RECURSIVE SumValues(_)
SumValues(assignment) ==
    IF DOMAIN assignment = {} THEN 0
    ELSE LET x == CHOOSE x \in DOMAIN assignment : TRUE
         IN assignment[x] + SumValues([y \in DOMAIN assignment \ {x} |-> assignment[y]])

\* sorted(graph_data['vertices'], key=lambda x: x['id']) followed by
\* [v['id'] for v in sorted_vertices]
RECURSIVE SortedIds(_)
SortedIds(vs) ==
    IF vs = <<>> THEN <<>>
    ELSE LET m == CHOOSE i \in 1..Len(vs) :
                    /\ \A j \in 1..Len(vs) : vs[i] <= vs[j]
                    /\ \A j \in 1..(i - 1) : vs[j] # vs[i]
         IN <<vs[m]>> \o SortedIds(SubSeq(vs, 1, m - 1) \o SubSeq(vs, m + 1, Len(vs)))

(***************************************************************************)
(* 1. PROBLEM LOGIC (SRDF VARIANT C)                                       *)
(***************************************************************************)
\* A variant that differs by a plausible slip: the `elif e['target'] == v_id` branch is missing.
RECURSIVE get_neighbors_source_only(_, _)
get_neighbors_source_only(v_id, es) ==
    IF es = <<>> THEN <<>>
    ELSE LET e == Head(es)
             rest == get_neighbors_source_only(v_id, Tail(es))
         IN IF e.source = v_id THEN <<[id |-> e.target, sign |-> e.sign]>> \o rest
            ELSE rest

RECURSIVE get_neighbors(_, _)
get_neighbors(v_id, es) ==
    IF es = <<>> THEN <<>>
    ELSE LET e == Head(es)
             rest == get_neighbors(v_id, Tail(es))
         IN IF e.source = v_id THEN <<[id |-> e.target, sign |-> e.sign]>> \o rest
            ELSE IF e.target = v_id THEN <<[id |-> e.source, sign |-> e.sign]>> \o rest
            ELSE rest

\* defense_score after the loop over neighbors (l.50, l.53-56)
RECURSIVE defense_score(_, _, _)
defense_score(assignment, val, neighbors) ==
    IF neighbors = <<>> THEN val
    ELSE LET n == neighbors[Len(neighbors)]
         IN defense_score(assignment, val, SubSeq(neighbors, 1, Len(neighbors) - 1))
              + Get(assignment, n.id) * n.sign

\* strong_neighbor after the loop over neighbors (l.51, l.58-59)
strong_neighbor(assignment, val, neighbors) ==
    \E i \in 1..Len(neighbors) :
        val = 0 /\ Get(assignment, neighbors[i].id) = 2 /\ neighbors[i].sign = 1

\* A variant that differs by a plausible slip: the penalty of condition (i) is never added.
vertex_violations_no_roman(assignment, v_id, es) ==
    LET val == Get(assignment, v_id)
        d == defense_score(assignment, val, get_neighbors(v_id, es))
    IN IF d < 1 THEN DefensePenalty + Abs(1 - d) ELSE 0

\* what one pass of the loop body l.44-68 adds to `violations`
vertex_violations(assignment, v_id, es) ==
    LET val == Get(assignment, v_id)
        neighbors == get_neighbors(v_id, es)
        d == defense_score(assignment, val, neighbors)
    IN (IF val = 0 /\ ~strong_neighbor(assignment, val, neighbors)
           THEN RomanPenalty ELSE 0)
       + (IF d < 1 THEN DefensePenalty + Abs(1 - d) ELSE 0)

RECURSIVE total_violations(_, _, _)
total_violations(assignment, vs, es) ==
    IF vs = <<>> THEN 0
    ELSE vertex_violations(assignment, Head(vs), es)
           + total_violations(assignment, Tail(vs), es)

evaluate_solution(assignment, vs, es) ==
    LET v == total_violations(assignment, vs, es)
    IN [is_valid |-> (v = 0), weight |-> SumValues(assignment), violations |-> v]

(***************************************************************************)
(* Bitstring decode, l.165-175.                                            *)
(***************************************************************************)
\* bitstring[-n] raises IndexError exactly when n exceeds the length
HasNeg(bitstring, n) == n <= Len(bitstring)

NegIndex(bitstring, n) == bitstring[Len(bitstring) - n + 1]

\* A plausible alternative: each missing bit defaults to 0 on its own.
decode_value_per_bit(bitstring, i) ==
    LET b0 == IF HasNeg(bitstring, 2 * i + 1) THEN NegIndex(bitstring, 2 * i + 1) ELSE 0
        b1 == IF HasNeg(bitstring, 2 * i + 2) THEN NegIndex(bitstring, 2 * i + 2) ELSE 0
        val == 2 * b1 + b0
    IN IF val = 3 THEN 0 ELSE val

\* A variant that differs by a plausible slip: b0 and b1 read from each other's offsets.
decode_value_swapped(bitstring, i) ==
    IF HasNeg(bitstring, 2 * i + 1) /\ HasNeg(bitstring, 2 * i + 2)
    THEN LET b1 == NegIndex(bitstring, 2 * i + 1)
             b0 == NegIndex(bitstring, 2 * i + 2)
             val == 2 * b1 + b0
         IN IF val = 3 THEN 0 ELSE val
    ELSE 0

\* the value stored for the i-th (0-indexed) id of v_ids: the try block of
\* l.168-173, and l.175 when either index raises IndexError
decode_value(bitstring, i) ==
    IF HasNeg(bitstring, 2 * i + 1) /\ HasNeg(bitstring, 2 * i + 2)
    THEN LET b0 == NegIndex(bitstring, 2 * i + 1)
             b1 == NegIndex(bitstring, 2 * i + 2)
             val == 2 * b1 + b0
         IN IF val = 3 THEN 0 ELSE val
    ELSE 0

\* current_assignment after the loop of l.166
decode(bitstring, v_ids) ==
    [v \in Range(v_ids) |->
        decode_value(bitstring, (CHOOSE i \in 1..Len(v_ids) : v_ids[i] = v) - 1)]

(***************************************************************************)
(* Sample selection, l.163-186.                                            *)
(***************************************************************************)
\* `a < b` where b may be float('inf') and a is an integer
LessThanScore(a, b) == IF b = Inf THEN TRUE ELSE a < b

\* A variant that differs by a plausible slip: the factor applied to the weight instead of the violations.
qc_score_swapped(viol, w) == viol + (w * ScoreFactor)

\* l.178
qc_score(viol, w) == (viol * ScoreFactor) + w

\* l.180
improves(score, best) == LessThanScore(score, best)

(***************************************************************************)
(* Greedy repair, l.194-255.                                               *)
(***************************************************************************)
\* l.218: greedy_assignment[n['id']] raises KeyError for an id that is no vertex
scan_raises(ga, vs, es) ==
    \E i \in 1..Len(vs) :
        \E n \in Range(get_neighbors(vs[i], es)) : n.id \notin DOMAIN ga

\* the test of l.222 for one vertex (every neighbour id is a key of ga)
is_violated(ga, v_id, es) ==
    LET val == ga[v_id]
        neighbors == get_neighbors(v_id, es)
    IN \/ (val = 0 /\ ~strong_neighbor(ga, val, neighbors))
       \/ defense_score(ga, val, neighbors) < 1

\* l.207-223
violated_nodes(ga, vs, es) == SelectSeq(vs, LAMBDA v : is_violated(ga, v, es))

\* A variant that differs by a plausible slip: the tentative upgrade is not restored.
test_upgrade_no_restore(ga, n_id, vs, es) ==
    LET upgraded == [ga EXCEPT ![n_id] = 2]
    IN [ga |-> upgraded,
        new_viol |-> evaluate_solution(upgraded, vs, es).violations]

\* l.236-239: set to 2, evaluate, put `prev` back
test_upgrade(ga, n_id, vs, es) ==
    LET prev == ga[n_id]
        upgraded == [ga EXCEPT ![n_id] = 2]
    IN [ga |-> [upgraded EXCEPT ![n_id] = prev],
        new_viol |-> evaluate_solution(upgraded, vs, es).violations]

\* l.233-244: the loop over the neighbours of one violated vertex;
\* st = [ga, best_cand, max_gain]
RECURSIVE probe(_, _, _, _, _)
probe(st, neighbors, c_viol, vs, es) ==
    IF neighbors = <<>> THEN st
    ELSE LET n == Head(neighbors)
             st2 == IF n.sign = 1 /\ st.ga[n.id] < 2
                    THEN LET t == test_upgrade(st.ga, n.id, vs, es)
                             gain == c_viol - t.new_viol
                         IN IF gain > st.max_gain
                            THEN [ga |-> t.ga, best_cand |-> n.id, max_gain |-> gain]
                            ELSE [st EXCEPT !.ga = t.ga]
                    ELSE st
         IN probe(st2, Tail(neighbors), c_viol, vs, es)

\* l.226-255: the loop over violated_nodes, up to its first `break`
RECURSIVE heuristic_fix(_, _, _, _, _)
heuristic_fix(ga, violated, c_viol, vs, es) ==
    IF violated = <<>> THEN [ga |-> ga, changed |-> FALSE]
    ELSE LET v == Head(violated)
             p == probe([ga |-> ga, best_cand |-> NoCand, max_gain |-> -1],
                        get_neighbors(v, es), c_viol, vs, es)
         IN IF p.best_cand # NoCand /\ p.max_gain > 0
            THEN [ga |-> [p.ga EXCEPT ![p.best_cand] = 2], changed |-> TRUE]
            ELSE IF p.ga[v] < 2
            THEN [ga |-> [p.ga EXCEPT ![v] = 2], changed |-> TRUE]
            ELSE heuristic_fix(p.ga, Tail(violated), c_viol, vs, es)

(***************************************************************************)
(* Reduction phase, l.259-269, and arbitration, l.272-279.                 *)
(***************************************************************************)
\* A variant that differs by a plausible slip: the decrement is kept without the validity test.
reduce_vertex_no_revert(ga, v_id, vs, es) ==
    IF ga[v_id] > 0 THEN [ga EXCEPT ![v_id] = ga[v_id] - 1] ELSE ga

\* l.261-269 for one vertex
reduce_vertex(ga, v_id, vs, es) ==
    LET curr == ga[v_id]
    IN IF curr > 0
       THEN LET lowered == [ga EXCEPT ![v_id] = curr - 1]
            IN IF ~evaluate_solution(lowered, vs, es).is_valid
               THEN [lowered EXCEPT ![v_id] = curr]
               ELSE lowered
       ELSE ga

\* A variant that differs by a plausible slip: `<=` in place of `<`.
classical_wins_on_tie(c, best) == c = best \/ LessThanScore(c, best)

\* l.277
classical_wins(c, best) == LessThanScore(c, best)

(***************************************************************************)
(* Input families.                                                         *)
(***************************************************************************)
Signs == {1, -1}

EdgeTypes(ids) == [source : ids, target : ids, sign : Signs]

\* vertex lists: the ids 1..n, n <= maxn, in any list order
VertexLists(maxn) ==
    {vs \in SeqsUpTo(1..maxn, maxn) : Injective(vs) /\ Range(vs) = 1..Len(vs)}

Bitstrings(len) == [1..len -> {0, 1}]

\* counts with keys of the circuit's width (measure_all over 2*|V| qubits),
\* each seen just below or just at the noise floor
CountsOf(n, maxs) ==
    {c \in SeqsUpTo([bitstring : Bitstrings(2 * n),
                     count : {NoiseFloor - 1, NoiseFloor}], maxs) :
        \A i, j \in 1..Len(c) : c[i].bitstring = c[j].bitstring => i = j}

Copies(e, n) == [i \in 1..n |-> e]

ZeroAssignment(vs) == [v \in Range(vs) |-> 0]

EmptyDict == <<>>

Unset ==
    /\ k = 1
    /\ is_valid = FALSE
    /\ weight = 0
    /\ violations = 0
    /\ best_qc_assignment = EmptyDict
    /\ best_qc_score = Inf
    /\ best_hybrid_assignment = EmptyDict
    /\ greedy_assignment = EmptyDict
    /\ changed = FALSE
    /\ iterations = 0
    /\ pass_no = 0
    /\ vidx = 1
    /\ c_score = 0
    /\ raised = FALSE

\* the ids an edge of a graph over `vs` may name: the vertices and one id
\* that is no vertex
EndpointIds(vs) == 1..(Len(vs) + 1)

IdentityList(n) == [i \in 1..n |-> i]

\* a solve request: a graph whose edges may name an id that is no vertex,
\* with no sample returned; or one edge between two ids repeated up to
\* MaxParallel times, with no sample returned; or a graph of at most
\* MaxSampledE edges, its vertices listed in any order, with counts as
\* delivered by the sampler
Init ==
    /\ \/ /\ vertices \in {IdentityList(n) : n \in 0..MaxV}
          /\ edges \in SeqsUpTo(EdgeTypes(EndpointIds(vertices)), MaxE)
          /\ counts = <<>>
       \/ /\ vertices \in {IdentityList(n) : n \in 0..MaxV}
          /\ \E e \in EdgeTypes(EndpointIds(vertices)) :
                \E n \in (MaxE + 1)..MaxParallel :
                    e.source # e.target /\ edges = Copies(e, n)
          /\ counts = <<>>
       \/ /\ vertices \in VertexLists(MaxV)
          /\ edges \in SeqsUpTo(EdgeTypes(EndpointIds(vertices)), MaxSampledE)
          /\ counts \in CountsOf(Len(vertices), MaxSamples)
    /\ current_assignment = EmptyDict
    /\ pc = "select"
    /\ Unset

\* a solve request with several samples over a graph without dangling edges
InitSelect ==
    /\ vertices \in VertexLists(MaxSelV)
    /\ edges \in SeqsUpTo(EdgeTypes(Range(vertices)), MaxSelE)
    /\ counts \in CountsOf(Len(vertices), MaxSelSamples)
    /\ current_assignment = EmptyDict
    /\ pc = "select"
    /\ Unset

\* a direct call evaluate_solution(assignment, vertices, edges)
InitEval ==
    /\ \E n \in 0..MaxEvalV :
          /\ vertices = [i \in 1..n |-> i]
          /\ edges \in SeqsUpTo(EdgeTypes(1..(n + 1)), MaxEvalE)
          /\ current_assignment \in [1..n -> {0, 1, 2}]
    /\ counts = <<>>
    /\ pc = "evaluate"
    /\ Unset

\* a direct decode of one bitstring of any length up to MaxBits
InitDecode ==
    /\ vertices \in {vs \in SeqsUpTo(1..MaxDecId, MaxDecId - 1) : Injective(vs)}
    /\ edges = <<>>
    /\ \E len \in 0..MaxBits : \E b \in Bitstrings(len) :
          counts = <<[bitstring |-> b, count |-> NoiseFloor]>>
    /\ current_assignment = EmptyDict
    /\ pc = "decode"
    /\ Unset

(***************************************************************************)
(* Actions.                                                                *)
(***************************************************************************)
\* l.177 alone
EvaluateCall ==
    /\ pc = "evaluate"
    /\ LET r == evaluate_solution(current_assignment, vertices, edges)
       IN /\ is_valid' = r.is_valid
          /\ weight' = r.weight
          /\ violations' = r.violations
    /\ pc' = "evaluated"
    /\ UNCHANGED <<vertices, edges, counts, k, current_assignment, best_qc_assignment,
                   best_qc_score, best_hybrid_assignment, greedy_assignment, changed,
                   iterations, pass_no, vidx, c_score, raised>>

\* l.122, l.161, l.165-175 alone
DecodeCall ==
    /\ pc = "decode"
    /\ current_assignment' = decode(counts[1].bitstring, SortedIds(vertices))
    /\ pc' = "decoded"
    /\ UNCHANGED <<vertices, edges, counts, k, is_valid, weight, violations,
                   best_qc_assignment, best_qc_score, best_hybrid_assignment,
                   greedy_assignment, changed, iterations, pass_no, vidx, c_score,
                   raised>>

\* l.164: `if count < 5: continue`
SkipNoise ==
    /\ pc = "select"
    /\ k <= Len(counts)
    /\ counts[k].count < NoiseFloor
    /\ k' = k + 1
    /\ UNCHANGED <<vertices, edges, counts, pc, current_assignment, is_valid, weight,
                   violations, best_qc_assignment, best_qc_score,
                   best_hybrid_assignment, greedy_assignment, changed, iterations,
                   pass_no, vidx, c_score, raised>>

\* l.165-186 for one surviving sample
EvaluateSample ==
    /\ pc = "select"
    /\ k <= Len(counts)
    /\ ~(counts[k].count < NoiseFloor)
    /\ LET a == decode(counts[k].bitstring, SortedIds(vertices))
           r == evaluate_solution(a, vertices, edges)
           score == qc_score(r.violations, r.weight)
       IN /\ current_assignment' = a
          /\ is_valid' = r.is_valid
          /\ weight' = r.weight
          /\ violations' = r.violations
          /\ IF improves(score, best_qc_score)
             THEN best_qc_score' = score /\ best_qc_assignment' = a
             ELSE UNCHANGED <<best_qc_score, best_qc_assignment>>
    /\ k' = k + 1
    /\ UNCHANGED <<vertices, edges, counts, pc, best_hybrid_assignment,
                   greedy_assignment, changed, iterations, pass_no, vidx, c_score,
                   raised>>

\* l.190-197
StartHybrid ==
    /\ pc = "select"
    /\ k > Len(counts)
    /\ best_hybrid_assignment' = best_qc_assignment
    /\ greedy_assignment' = ZeroAssignment(vertices)
    /\ changed' = TRUE
    /\ iterations' = 0
    /\ pc' = "repair"
    /\ UNCHANGED <<vertices, edges, counts, k, current_assignment, is_valid, weight,
                   violations, best_qc_assignment, best_qc_score, pass_no, vidx,
                   c_score, raised>>

\* one pass of the while body, l.199-255
RepairIteration ==
    /\ pc = "repair"
    /\ changed /\ iterations < IterCap
    /\ iterations' = iterations + 1
    /\ LET c == evaluate_solution(greedy_assignment, vertices, edges)
       IN IF c.is_valid
          THEN \* l.204: break
               /\ changed' = FALSE
               /\ pc' = "reduce"
               /\ UNCHANGED <<greedy_assignment, raised>>
          ELSE IF scan_raises(greedy_assignment, vertices, edges)
          THEN \* KeyError at l.218, caught at l.281
               /\ changed' = FALSE
               /\ raised' = TRUE
               /\ pc' = "done"
               /\ UNCHANGED greedy_assignment
          ELSE LET f == heuristic_fix(greedy_assignment,
                                      violated_nodes(greedy_assignment, vertices, edges),
                                      c.violations, vertices, edges)
               IN /\ greedy_assignment' = f.ga
                  /\ changed' = f.changed
                  /\ UNCHANGED <<pc, raised>>
    /\ UNCHANGED <<vertices, edges, counts, k, current_assignment, is_valid, weight,
                   violations, best_qc_assignment, best_qc_score,
                   best_hybrid_assignment, pass_no, vidx, c_score>>

\* the while condition of l.198 is false
RepairDone ==
    /\ pc = "repair"
    /\ ~(changed /\ iterations < IterCap)
    /\ pc' = "reduce"
    /\ UNCHANGED <<vertices, edges, counts, k, current_assignment, is_valid, weight,
                   violations, best_qc_assignment, best_qc_score,
                   best_hybrid_assignment, greedy_assignment, changed, iterations,
                   pass_no, vidx, c_score, raised>>

\* l.261-269 for the vertex at position vidx of pass pass_no
ReduceStep ==
    /\ pc = "reduce"
    /\ pass_no < ReducePasses
    /\ vidx <= Len(vertices)
    /\ greedy_assignment' = reduce_vertex(greedy_assignment, vertices[vidx],
                                          vertices, edges)
    /\ IF vidx < Len(vertices)
       THEN vidx' = vidx + 1 /\ UNCHANGED pass_no
       ELSE vidx' = 1 /\ pass_no' = pass_no + 1
    /\ UNCHANGED <<vertices, edges, counts, pc, k, current_assignment, is_valid,
                   weight, violations, best_qc_assignment, best_qc_score,
                   best_hybrid_assignment, changed, iterations, c_score, raised>>

\* l.272-279, reached when the loops of l.259-260 are exhausted
Arbitrate ==
    /\ pc = "reduce"
    /\ (pass_no = ReducePasses \/ Len(vertices) = 0)
    /\ LET c == evaluate_solution(greedy_assignment, vertices, edges)
           s == (c.violations * ScoreFactor) + c.weight
       IN /\ c_score' = s
          /\ best_hybrid_assignment' =
                IF classical_wins(s, best_qc_score) THEN greedy_assignment
                ELSE best_hybrid_assignment
    /\ pc' = "done"
    /\ UNCHANGED <<vertices, edges, counts, k, current_assignment, is_valid, weight,
                   violations, best_qc_assignment, best_qc_score, greedy_assignment,
                   changed, iterations, pass_no, vidx, raised>>

Next ==
    \/ SkipNoise
    \/ EvaluateSample
    \/ StartHybrid
    \/ RepairIteration
    \/ RepairDone
    \/ ReduceStep
    \/ Arbitrate

Spec == Init /\ [][Next]_vars

SpecSelect == InitSelect /\ [][Next]_vars

SpecEval == InitEval /\ [][EvaluateCall]_vars

SpecDecode == InitDecode /\ [][DecodeCall]_vars

(***************************************************************************)
(* Properties.                                                             *)
(***************************************************************************)
VertexSet == Range(vertices)

\* the i-th (0-indexed) vertex in ascending identifier order
Rank(v) == Cardinality({u \in VertexSet : u < v})

Combined(r) == (r.violations * 100) + r.weight

Survivors == {i \in 1..Len(counts) : counts[i].count >= NoiseFloor}

NoDangling ==
    \A i \in 1..Len(edges) : edges[i].source \in VertexSet /\ edges[i].target \in VertexSet

NegativeEdges == Cardinality({i \in 1..Len(edges) : edges[i].sign = -1})

----
\* C1: evaluate_solution returns weight = the sum of the assigned values,
\* violations = the sum over vertices v of [10 if value(v) = 0 and v has no
\* neighbour of value 2 over a +1 edge] + [5 + (1 - defense(v)) if defense(v) < 1],
\* with defense(v) = value(v) + the sum over edges incident to v of (other
\* endpoint's value * sign), and valid = (violations = 0); the path 1-2-3 with
\* both signs +1 and assignment {1:0, 2:2, 3:0} gives (valid, 2, 0).
C1_Incident(v) == {i \in 1..Len(edges) : edges[i].source = v \/ edges[i].target = v}

C1_Other(i, v) == IF edges[i].source = v THEN edges[i].target ELSE edges[i].source

C1_Value(u) == IF u \in VertexSet THEN current_assignment[u] ELSE 0

C1_Defense(v) ==
    current_assignment[v]
      + SumValues([i \in C1_Incident(v) |-> C1_Value(C1_Other(i, v)) * edges[i].sign])

C1_Penalty(v) ==
    (IF /\ current_assignment[v] = 0
        /\ ~\E i \in C1_Incident(v) :
               edges[i].sign = 1 /\ C1_Value(C1_Other(i, v)) = 2
     THEN 10 ELSE 0)
    + (IF C1_Defense(v) < 1 THEN 5 + (1 - C1_Defense(v)) ELSE 0)

C1_PathScenario ==
    /\ vertices = <<1, 2, 3>>
    /\ Len(edges) = 2
    /\ {{edges[1].source, edges[1].target}, {edges[2].source, edges[2].target}}
         = {{1, 2}, {2, 3}}
    /\ edges[1].sign = 1 /\ edges[2].sign = 1
    /\ current_assignment = <<0, 2, 0>>

C1_EvaluateContract ==
    pc = "evaluated" =>
        /\ weight = SumValues([v \in VertexSet |-> current_assignment[v]])
        /\ violations = SumValues([v \in VertexSet |-> C1_Penalty(v)])
        /\ is_valid = (violations = 0)
        /\ C1_PathScenario => (is_valid /\ weight = 2 /\ violations = 0)

C1_Witness == pc = "evaluated" /\ C1_PathScenario /\ is_valid /\ weight = 2

----
\* C7: for a bit-sequence of length at least 2*|V|, the i-th vertex in
\* ascending identifier order gets (highBit << 1) | lowBit, lowBit at offset 2i
\* and highBit at offset 2i+1 from the end, except that 11 gives 0; every
\* value is in {0,1,2}, an assignment encoded as 00/01/10 per vertex decodes
\* back to itself, and "1000" over vertices 1, 2 decodes to {1:0, 2:2}.
C7_Bits == counts[1].bitstring

\* the bit at offset `off` counted from the end of the sequence
C7_BitAt(off) == C7_Bits[Len(C7_Bits) - off]

C7_Pair(v) ==
    LET low == C7_BitAt(2 * Rank(v))
        high == C7_BitAt(2 * Rank(v) + 1)
    IN IF low = 1 /\ high = 1 THEN 0 ELSE (2 * high) + low

C7_Encode(a) ==
    [p \in 1..(2 * Len(vertices)) |->
        LET off == (2 * Len(vertices)) - p
            v == CHOOSE u \in VertexSet : Rank(u) = off \div 2
        IN IF off % 2 = 0 THEN a[v] % 2 ELSE a[v] \div 2]

C7_DecodeFullLength ==
    (pc = "decoded" /\ Len(C7_Bits) >= 2 * Len(vertices)) =>
        /\ DOMAIN current_assignment = VertexSet
        /\ \A v \in VertexSet :
              current_assignment[v] = C7_Pair(v) /\ current_assignment[v] \in {0, 1, 2}
        /\ \A a \in [VertexSet -> {0, 1, 2}] :
              C7_Bits = C7_Encode(a) => current_assignment = a
        /\ (VertexSet = {1, 2} /\ C7_Bits = <<1, 0, 0, 0>>) =>
              current_assignment = [v \in {1, 2} |-> IF v = 1 THEN 0 ELSE 2]

C7_Witness ==
    /\ pc = "decoded"
    /\ vertices = <<2, 1>>
    /\ C7_Bits = <<1, 0, 0, 0>>
    /\ current_assignment[1] = 0
    /\ current_assignment[2] = 2

----
\* C8 as stated: for a bit-sequence shorter than 2*|V| each missing bit is
\* read as 0 on its own while a present bit keeps its value, so a vertex whose
\* low bit is present and set and whose high bit is missing decodes to 1.
C8_BitOrZero(off) == IF off < Len(C7_Bits) THEN C7_BitAt(off) ELSE 0

C8_PerBitDefault ==
    (pc = "decoded" /\ Len(C7_Bits) < 2 * Len(vertices)) =>
        \A v \in VertexSet :
            LET low == C8_BitOrZero(2 * Rank(v))
                high == C8_BitOrZero(2 * Rank(v) + 1)
            IN current_assignment[v] = IF low = 1 /\ high = 1 THEN 0 ELSE (2 * high) + low

\* C8 as amended: for a bit-sequence shorter than 2*|V| decoding gives every
\* vertex a value; a vertex with both bits inside the sequence decodes as in
\* C7, and a vertex with either bit beyond the sequence decodes to 0, also
\* when its low bit is present and set.
C8_MissingBitZeroesVertex ==
    (pc = "decoded" /\ Len(C7_Bits) < 2 * Len(vertices)) =>
        /\ DOMAIN current_assignment = VertexSet
        /\ \A v \in VertexSet :
              current_assignment[v] =
                  IF (2 * Rank(v)) + 1 < Len(C7_Bits) THEN C7_Pair(v) ELSE 0

C8_Witness ==
    /\ pc = "decoded"
    /\ Len(C7_Bits) = 3
    /\ Len(vertices) = 2
    /\ C7_Bits[1] = 1
    /\ \E v \in VertexSet : Rank(v) = 1 /\ current_assignment[v] = 0

----
ViolationsOf(a) == evaluate_solution(a, vertices, edges).violations

ValidAssignment(a) == evaluate_solution(a, vertices, edges).is_valid

WeightOf(a) == SumValues(a)

\* the repair loop has just stopped: by its while condition or its break
\* (the reduction phase has not acted yet), or by the exception
RepairStopped ==
    \/ (pc = "reduce" /\ pass_no = 0 /\ vidx = 1)
    \/ (pc = "done" /\ raised)

\* C2 as stated: the repair loop stops within the iteration cap of 100, and
\* the assignment it stops with is valid or has a violations total less than
\* or equal to that of the all-zero assignment on the same graph.
C2_RepairNoWorseThanZero ==
    /\ iterations <= IterCap
    /\ RepairStopped =>
          \/ ValidAssignment(greedy_assignment)
          \/ ViolationsOf(greedy_assignment) <= ViolationsOf(ZeroAssignment(vertices))

\* C2 as amended: the repair loop stops within the iteration cap of 100, and
\* on a graph with at most 3*|V| negative-sign edges the assignment it stops
\* with is valid or has a violations total less than or equal to that of the
\* all-zero assignment on the same graph.
C2_RepairNoWorseThanZeroFewNegative ==
    /\ iterations <= IterCap
    /\ (RepairStopped /\ NegativeEdges <= 3 * Len(vertices)) =>
          \/ ValidAssignment(greedy_assignment)
          \/ ViolationsOf(greedy_assignment) <= ViolationsOf(ZeroAssignment(vertices))

C2_Witness ==
    /\ RepairStopped
    /\ ~raised
    /\ iterations = Len(vertices) + 1
    /\ NegativeEdges = 3 * Len(vertices)
    /\ ~ValidAssignment(greedy_assignment)
    /\ ViolationsOf(greedy_assignment) = ViolationsOf(ZeroAssignment(vertices))

----
\* C3: every step of the reduction pass leaves the weight less than or equal
\* to the weight before it, and a valid assignment is valid after every vertex
\* step, hence at the end of the pass.
C3_ReductionMonotone ==
    [][(pc = "reduce" /\ pc' = "reduce") =>
          /\ WeightOf(greedy_assignment') <= WeightOf(greedy_assignment)
          /\ \A v \in VertexSet : greedy_assignment'[v] <= greedy_assignment[v]
          /\ ValidAssignment(greedy_assignment) => ValidAssignment(greedy_assignment')]_vars

\* after one full pass over a valid assignment: one decrement was kept (repair
\* only produces 0 and 2) and one was reverted (a 2 is left)
C3_Witness ==
    /\ pc = "reduce"
    /\ pass_no = 1
    /\ vidx = 1
    /\ ValidAssignment(greedy_assignment)
    /\ \E v \in VertexSet : greedy_assignment[v] = 1
    /\ \E v \in VertexSet : greedy_assignment[v] = 2

----
Clean(es) == SelectSeq(es, LAMBDA e : e.source \in VertexSet /\ e.target \in VertexSet)

RECURSIVE RepairLoop(_, _, _, _, _)
RepairLoop(ga, ch, it, vs, es) ==
    IF ~(ch /\ it < IterCap) THEN ga
    ELSE LET c == evaluate_solution(ga, vs, es)
         IN IF c.is_valid THEN ga
            ELSE LET f == heuristic_fix(ga, violated_nodes(ga, vs, es),
                                        c.violations, vs, es)
                 IN RepairLoop(f.ga, f.changed, it + 1, vs, es)

RECURSIVE ReduceLoop(_, _, _, _, _)
ReduceLoop(ga, p, i, vs, es) ==
    IF p = ReducePasses \/ Len(vs) = 0 THEN ga
    ELSE ReduceLoop(reduce_vertex(ga, vs[i], vs, es),
                    IF i < Len(vs) THEN p ELSE p + 1,
                    IF i < Len(vs) THEN i + 1 ELSE 1, vs, es)

\* repair plus reduction on a graph all of whose edge endpoints are vertices
Classical(vs, es) == ReduceLoop(RepairLoop(ZeroAssignment(vs), TRUE, 0, vs, es), 0, 1, vs, es)

\* C4: an edge with an endpoint outside the vertex set is ignored by the
\* evaluator, the repair engine and the reduction pass: none of them fails and
\* each produces the result it produces on the graph with that edge removed.
C4_DanglingEdgesIgnored ==
    /\ ~raised
    /\ \A a \in {current_assignment, greedy_assignment} :
          evaluate_solution(a, vertices, edges) = evaluate_solution(a, vertices, Clean(edges))
    /\ pc = "done" => greedy_assignment = Classical(vertices, Clean(edges))

----
\* C5: when no sample survives the noise floor (none was returned, or all
\* were discarded), the returned assignment is the repair-plus-reduction
\* assignment and is defined for every vertex of the graph.
C5_NoSampleReturnsClassical ==
    (pc = "done" /\ Survivors = {}) =>
        /\ best_hybrid_assignment = greedy_assignment
        /\ DOMAIN best_hybrid_assignment = VertexSet

----
\* C6: among the samples that survive the noise floor, whenever one decodes
\* to a valid assignment the selected assignment is valid, in whatever order
\* the samples are iterated and whatever the other samples' weights and
\* violations; the selected sample has the lowest combined score
\* (violations*100 + weight) among the surviving samples of its validity.
C6_Decoded(i) == decode(counts[i].bitstring, SortedIds(vertices))

C6_Result(i) == evaluate_solution(C6_Decoded(i), vertices, edges)

C6_ValidityFirst ==
    (k > Len(counts) /\ Survivors # {}) =>
        LET best == evaluate_solution(best_qc_assignment, vertices, edges)
        IN /\ \E i \in Survivors : best_qc_assignment = C6_Decoded(i)
           /\ (\E i \in Survivors : C6_Result(i).is_valid) => best.is_valid
           /\ \A i \in Survivors :
                 C6_Result(i).is_valid = best.is_valid =>
                     Combined(best) <= Combined(C6_Result(i))

\* an invalid sample of lower weight is iterated before the valid one selected
C6_Witness ==
    /\ k > Len(counts)
    /\ \E i, j \in Survivors :
          /\ i < j
          /\ ~C6_Result(i).is_valid
          /\ C6_Result(j).is_valid
          /\ C6_Result(i).weight < C6_Result(j).weight
          /\ best_qc_assignment = C6_Decoded(j)

----
\* C9: when a sampled candidate was selected, arbitration returns the
\* classical repair-plus-reduction assignment if its combined score
\* (violations*100 + weight, by the evaluator) is strictly lower than the
\* sampled candidate's, and the sampled candidate otherwise, also on a tie.
C9_LowerScoreWins ==
    (pc = "done" /\ ~raised /\ Survivors # {}) =>
        LET c == Combined(evaluate_solution(greedy_assignment, vertices, edges))
            q == Combined(evaluate_solution(best_qc_assignment, vertices, edges))
        IN /\ c_score = c
           /\ best_qc_score = q
           /\ best_hybrid_assignment =
                 IF c < q THEN greedy_assignment ELSE best_qc_assignment

\* a tie between two different assignments, the sampled one returned
C9_Witness ==
    /\ pc = "done"
    /\ ~raised
    /\ Survivors # {}
    /\ c_score = best_qc_score
    /\ greedy_assignment # best_qc_assignment
    /\ best_hybrid_assignment = best_qc_assignment

----
\* C10: an iteration of the repair loop commits at most one change, which
\* sets one vertex of value below 2 to 2: a positive-sign neighbour of a
\* violated vertex, with the greatest and strictly positive gain among that
\* vertex's neighbours, otherwise a violated vertex itself; nothing else
\* differs after the iteration (tentative upgrades are undone).  At every
\* iteration boundary all values are in {0,2}, no value decreases, and without
\* dangling edges the loop stops after at most |V|+1 iterations.
C10_Violated(v) == vertex_violations(greedy_assignment, v, edges) > 0

C10_Gain(u) ==
    ViolationsOf(greedy_assignment) - ViolationsOf([greedy_assignment EXCEPT ![u] = 2])

\* the positive-sign neighbours of v whose value is below 2
C10_Candidates(v) ==
    {C1_Other(i, v) : i \in {j \in C1_Incident(v) :
        /\ edges[j].sign = 1
        /\ C1_Other(j, v) \in VertexSet
        /\ greedy_assignment[C1_Other(j, v)] < 2}}

C10_Justified(u) ==
    \E v \in VertexSet :
        /\ C10_Violated(v)
        /\ \/ /\ u \in C10_Candidates(v)
              /\ C10_Gain(u) > 0
              /\ \A w \in C10_Candidates(v) : C10_Gain(w) <= C10_Gain(u)
           \/ /\ u = v
              /\ \A w \in C10_Candidates(v) : C10_Gain(w) <= 0

C10_StepCommitsOneUpgrade ==
    (pc = "repair") =>
        LET D == {v \in VertexSet : greedy_assignment'[v] # greedy_assignment[v]}
        IN /\ DOMAIN greedy_assignment' = DOMAIN greedy_assignment
           /\ Cardinality(D) <= 1
           /\ (D = {}) = ~changed'
           /\ \A u \in D :
                 /\ greedy_assignment[u] < 2
                 /\ greedy_assignment'[u] = 2
                 /\ C10_Justified(u)

C10_Boundary ==
    (pc = "repair") =>
        /\ \A v \in VertexSet : greedy_assignment[v] \in {0, 2}
        /\ NoDangling => iterations <= Len(vertices) + 1

C10_OneUpgradePerIteration == []C10_Boundary /\ [][C10_StepCommitsOneUpgrade]_vars

\* the boundary after the first iteration, whose one change upgraded a
\* neighbour of the first vertex, chosen over another candidate of lower gain
C10_Witness ==
    /\ pc = "repair"
    /\ iterations = 1
    /\ changed
    /\ NoDangling
    /\ LET zero == ZeroAssignment(vertices)
           gain(u) == ViolationsOf(zero) - ViolationsOf([zero EXCEPT ![u] = 2])
       IN \E u, w \in VertexSet \ {vertices[1]} :
             /\ greedy_assignment = [zero EXCEPT ![u] = 2]
             /\ \E i, j \in C1_Incident(vertices[1]) :
                   /\ edges[i].sign = 1 /\ C1_Other(i, vertices[1]) = u
                   /\ edges[j].sign = 1 /\ C1_Other(j, vertices[1]) = w
             /\ gain(w) < gain(u)

====
